---- MODULE Spec2Model ----
\* Verification model of the callie macro tracker:
\*   callie.py            - single-user app (AI prefill, Add Meal, Update Meal)
\*   macro_tracker_app.py - multi-user app (login, per-user goals, cached reads)
\* Text inputs are sequences of one-character strings; numbers are integers in
\* units of 1/Scale so that decimal inputs such as "1.5" stay exact; NaN
\* stands for float("nan"), which compares false with every number.
EXTENDS Integers, Sequences, FiniteSets, TLC

\* ------------------------------------------------------------------ bounds
MaxLen == 3        \* longest text enumerated for the validators
MaxMeals == 2      \* most records the Meals table of callie.py may hold

Scale == 10 ^ MaxLen
NaN == 0 - Scale * Scale       \* below every value a text of the model denotes
\* value < 0 as Python evaluates it
below_zero(v) == v # NaN /\ v < 0

\* ------------------------------------------------------------- text layer
ParseChars == {"0", "5", "-", ".", " ", "x", "n", "a"}
Digits == {"0", "1", "2", "3", "4", "5", "6", "7", "8", "9"}

RECURSIVE TextsUpTo(_)
TextsUpTo(n) ==
    IF n = 0 THEN {<<>>}
    ELSE LET shorter == TextsUpTo(n - 1)
         IN  shorter \cup {Append(t, c) : t \in {u \in shorter : Len(u) = n - 1}, c \in ParseChars}

Macros == {"calories", "protein", "fat", "cholesterol", "carbs"}
MacroOrder == <<"calories", "protein", "fat", "cholesterol", "carbs">>

None == [isNone |-> TRUE, val |-> 0]
Some(v) == [isNone |-> FALSE, val |-> v]

DigitVal(c) ==
    CASE c = "0" -> 0 [] c = "1" -> 1 [] c = "2" -> 2 [] c = "3" -> 3
      [] c = "4" -> 4 [] c = "5" -> 5 [] c = "6" -> 6 [] c = "7" -> 7
      [] c = "8" -> 8 [] c = "9" -> 9

RECURSIVE DigitsVal(_)
DigitsVal(s) ==
    IF s = <<>> THEN 0
    ELSE DigitsVal(SubSeq(s, 1, Len(s) - 1)) * 10 + DigitVal(s[Len(s)])

RECURSIVE lstrip(_)
lstrip(s) == IF s # <<>> /\ s[1] = " " THEN lstrip(Tail(s)) ELSE s

RECURSIVE rstrip(_)
rstrip(s) == IF s # <<>> /\ s[Len(s)] = " " THEN rstrip(SubSeq(s, 1, Len(s) - 1)) ELSE s

\* str.strip()
strip(s) == rstrip(lstrip(s))

AllDigits(s) == \A i \in 1..Len(s) : s[i] \in Digits

\* float(text): [ok |-> FALSE] stands for ValueError. Grammar (after the
\* surrounding whitespace is dropped):
\*   [sign] digits [. [digits]] | [sign] . digits | [sign] nan
float_parts(neg, ip, fp) ==
    IF AllDigits(ip) /\ AllDigits(fp) /\ Len(ip) + Len(fp) > 0
    THEN [ok |-> TRUE,
          val |-> (IF neg THEN 0 - 1 ELSE 1) *
                  (DigitsVal(ip) * Scale + DigitsVal(fp) * (Scale \div (10 ^ Len(fp))))]
    ELSE [ok |-> FALSE, val |-> 0]

float_split(neg, u, dots) ==
    IF dots = {} THEN float_parts(neg, u, <<>>)
    ELSE IF Cardinality(dots) > 1 THEN [ok |-> FALSE, val |-> 0]
    ELSE float_parts(neg, SubSeq(u, 1, (CHOOSE i \in dots : TRUE) - 1),
                          SubSeq(u, (CHOOSE i \in dots : TRUE) + 1, Len(u)))

float_unsigned(neg, u) ==
    IF u = <<"n", "a", "n">> THEN [ok |-> TRUE, val |-> NaN]
    ELSE float_split(neg, u, {i \in 1..Len(u) : u[i] = "."})

float_stripped(t) ==
    IF t # <<>> /\ t[1] \in {"+", "-"} THEN float_unsigned(t[1] = "-", Tail(t))
    ELSE float_unsigned(FALSE, t)

float(text) == float_stripped(strip(text))

MustBeNonNegative(label) == [kind |-> "must_be_non_negative", field |-> label]
Rejected(label) == [ret |-> None, errs |-> <<MustBeNonNegative(label)>>]
Accepted(v) == [ret |-> Some(v), errs |-> <<>>]

\* callie.py parse_number, from the stripped text v and f = float(v)
parse_stripped(v, f, label) ==
    IF v = <<>> THEN Accepted(0)
    ELSE IF ~f.ok \/ below_zero(f.val) THEN Rejected(label)
    ELSE Accepted(f.val)

\* callie.py parse_number: <<value or None, messages appended to error_msgs>>
parse_number(value, label) == parse_stripped(strip(value), float(strip(value)), label)

\* macro_tracker_app.py parse_number
mt_parse_stripped(v, f, label) ==
    IF v = <<>> \/ ~f.ok \/ below_zero(f.val) THEN Rejected(label) ELSE Accepted(f.val)

mt_parse_number(value, label) == mt_parse_stripped(strip(value), float(strip(value)), label)

\* callie.py parse_and_log_numeric_update: float(value.strip()), ValueError -> None
NumberRequired(label) == [kind |-> "must_be_a_number", field |-> label]

update_parsed(f, field_name) ==
    IF f.ok THEN [ret |-> Some(f.val), errs |-> <<>>]
    ELSE [ret |-> None, errs |-> <<NumberRequired(field_name)>>]

parse_and_log_numeric_update(value, field_name) == update_parsed(float(strip(value)), field_name)

\* ------------------------------------------------- macro extraction (callie.py)
\* re.IGNORECASE on the letters of the labels
UpperCase == <<"A", "B", "C", "D", "E", "F", "G", "H", "I", "J", "K", "L", "M", "N", "O", "P", "Q", "R", "S", "T", "U", "V", "W", "X", "Y", "Z">>
LowerCase == <<"a", "b", "c", "d", "e", "f", "g", "h", "i", "j", "k", "l", "m", "n", "o", "p", "q", "r", "s", "t", "u", "v", "w", "x", "y", "z">>
lower(c) == IF \E i \in 1..26 : UpperCase[i] = c
            THEN LowerCase[CHOOSE i \in 1..26 : UpperCase[i] = c] ELSE c

\* \s and \d on the characters of the model
is_space(c) == c \in {" ", "\n"}
is_digit(c) == c \in Digits

\* The literal head of each pattern, "<Label>:", lower-cased
LabelOf(field) ==
    CASE field = "meal" -> <<"m", "e", "a", "l", ":">>
      [] field = "calories" -> <<"c", "a", "l", "o", "r", "i", "e", "s", ":">>
      [] field = "protein" -> <<"p", "r", "o", "t", "e", "i", "n", ":">>
      [] field = "fat" -> <<"f", "a", "t", ":">>
      [] field = "cholesterol" -> <<"c", "h", "o", "l", "e", "s", "t", "e", "r", "o", "l", ":">>
      [] field = "carbs" -> <<"c", "a", "r", "b", "s", ":">>

\* "g" after every number but that of the calories
UnitOfGramsOnly(field) == IF field = "calories" THEN <<>> ELSE <<"g">>

\* The literal that has to follow (\d+) in each numeric pattern
UnitOf(field) ==
    CASE field = "calories" -> <<>>
      [] field = "protein" -> <<"g">>
      [] field = "fat" -> <<"g">>
      [] field = "cholesterol" -> <<"m", "g">>
      [] field = "carbs" -> <<"g">>

\* A literal of a pattern matches text at position i, whatever the letter case
literal_at(text, i, literal) ==
    /\ i + Len(literal) - 1 <= Len(text)
    /\ \A k \in 1..Len(literal) : lower(text[i + k - 1]) = literal[k]

\* \s* and \d+ are greedy and what follows them never starts with a character
\* they take, so each ends at the first character outside its class
RECURSIVE after_spaces(_, _)
after_spaces(text, j) ==
    IF j <= Len(text) /\ is_space(text[j]) THEN after_spaces(text, j + 1) ELSE j

RECURSIVE after_digits(_, _)
after_digits(text, j) ==
    IF j <= Len(text) /\ is_digit(text[j]) THEN after_digits(text, j + 1) ELSE j

NoMatch == [found |-> FALSE, group |-> <<>>]
Match(g) == [found |-> TRUE, group |-> g]

\* r"<Label>:\s*(\d+)<unit>" tried at position i; j and k are where the
\* whitespace and the digits end
numeric_from(text, i, j, k, label, unit) ==
    IF literal_at(text, i, label) /\ k > j /\ literal_at(text, k, unit)
    THEN Match(SubSeq(text, j, k - 1)) ELSE NoMatch

numeric_at(text, i, label, unit) ==
    numeric_from(text, i, after_spaces(text, i + Len(label)),
                 after_digits(text, after_spaces(text, i + Len(label))), label, unit)

\* (.*?)(?:,|$) from position j: the index of the comma or of the end that
\* closes the lazy group, 0 if a newline comes first ('.' matches no newline,
\* '$' matches at the end and before a newline that ends the text)
RECURSIVE name_end(_, _)
name_end(text, j) ==
    IF j > Len(text) THEN j
    ELSE IF text[j] = "," THEN j
    ELSE IF text[j] = "\n" THEN (IF j = Len(text) THEN j ELSE 0)
    ELSE name_end(text, j + 1)

\* r"Meal:\s*(.*?)(?:,|$)" tried at position i
meal_from(text, i, j, k) ==
    IF literal_at(text, i, LabelOf("meal")) /\ k > 0
    THEN Match(SubSeq(text, j, k - 1)) ELSE NoMatch

meal_at(text, i) ==
    meal_from(text, i, after_spaces(text, i + Len(LabelOf("meal"))),
              name_end(text, after_spaces(text, i + Len(LabelOf("meal")))))

pattern_at(text, i, field) ==
    IF field = "meal" THEN meal_at(text, i)
    ELSE numeric_at(text, i, LabelOf(field), UnitOf(field))

\* re.search: the match at the leftmost position that has one
first_of(text, field, hits) ==
    IF hits = {} THEN NoMatch
    ELSE pattern_at(text, CHOOSE i \in hits : \A h \in hits : i <= h, field)

re_search(text, field) ==
    first_of(text, field, {i \in 1..Len(text) : pattern_at(text, i, field).found})

\* int(group): [ok |-> FALSE] stands for ValueError
int(s) ==
    IF s # <<>> /\ AllDigits(s) THEN [ok |-> TRUE, val |-> DigitsVal(s)]
    ELSE [ok |-> FALSE, val |-> 0]

\* int(<field>_match.group(1)) without the "if <field>_match:" before it
extracted_unguarded(m) ==
    IF int(m.group).ok THEN [raised |-> FALSE, val |-> Some(int(m.group).val)]
    ELSE [raised |-> TRUE, val |-> None]

\* One "if <field>_match: <field> = int(<field>_match.group(1))" of
\* parse_openai_response: the field's value, None when the pattern is absent
extracted(m) ==
    IF ~m.found THEN [raised |-> FALSE, val |-> None]
    ELSE IF int(m.group).ok THEN [raised |-> FALSE, val |-> Some(int(m.group).val)]
    ELSE [raised |-> TRUE, val |-> None]

extract_numeric(text, field) == extracted(re_search(text, field))

\* meal_name = meal_match.group(1).strip(), "" when the pattern is absent
extract_name(text) == strip(re_search(text, "meal").group)

Raised == [raised |-> TRUE, name |-> <<>>, macros |-> [m \in Macros |-> None]]

\* A response that lacks one number yields none of them
parse_result_all_or_nothing(name, nums) ==
    IF \E m \in Macros : nums[m].raised THEN Raised
    ELSE IF \E m \in Macros : nums[m].val.isNone
         THEN [raised |-> FALSE, name |-> name, macros |-> [m \in Macros |-> None]]
    ELSE [raised |-> FALSE, name |-> name, macros |-> [m \in Macros |-> nums[m].val]]

parse_result(name, nums) ==
    IF \E m \in Macros : nums[m].raised THEN Raised
    ELSE [raised |-> FALSE, name |-> name, macros |-> [m \in Macros |-> nums[m].val]]

\* parse_openai_response: the 6-tuple as [name, macros], values as plain
\* integers; raised stands for an exception leaving the function
parse_openai_response(response_text) ==
    parse_result(extract_name(response_text),
                 [m \in Macros |-> extract_numeric(response_text, m)])

\* ------------------------------------ responses the language model may give
MaxDigits == 2     \* longest digit string a generated response states as a value

\* The example of the system prompt of extract_macros_from_meal
GrilledChickenSalad ==
    <<"M", "e", "a", "l", ":", " ", "G", "r", "i", "l", "l", "e", "d", " ", "C", "h", "i", "c", "k", "e", "n", " ", "S", "a", "l", "a", "d", ",", " ", "C", "a", "l", "o", "r", "i", "e", "s", ":", " ", "3", "5", "0", "k", "c", "a", "l", ",", " ", "P", "r", "o", "t", "e", "i", "n", ":", " ", "4", "0", "g", ",", " ", "F", "a", "t", ":", " ", "1", "5", "g", ",", " ", "C", "h", "o", "l", "e", "s", "t", "e", "r", "o", "l", ":", " ", "8", "0", "m", "g", ",", " ", "C", "a", "r", "b", "s", ":", " ", "2", "0", "g">>

RECURSIVE DigitTextsOfLen(_)
DigitTextsOfLen(n) ==
    IF n = 0 THEN {<<>>}
    ELSE {Append(t, c) : t \in DigitTextsOfLen(n - 1), c \in {"0", "4"}}
DigitTexts == UNION {DigitTextsOfLen(n) : n \in 1..MaxDigits}

\* How the label of a field is written: as in the prompt, lower case, upper case
Written(field, style) ==
    CASE field = "meal" ->
           (CASE style = "Title" -> <<"M", "e", "a", "l">> [] style = "lower" -> <<"m", "e", "a", "l">> [] style = "UPPER" -> <<"M", "E", "A", "L">>)
      [] field = "calories" ->
           (CASE style = "Title" -> <<"C", "a", "l", "o", "r", "i", "e", "s">> [] style = "lower" -> <<"c", "a", "l", "o", "r", "i", "e", "s">> [] style = "UPPER" -> <<"C", "A", "L", "O", "R", "I", "E", "S">>)
      [] field = "protein" ->
           (CASE style = "Title" -> <<"P", "r", "o", "t", "e", "i", "n">> [] style = "lower" -> <<"p", "r", "o", "t", "e", "i", "n">> [] style = "UPPER" -> <<"P", "R", "O", "T", "E", "I", "N">>)
      [] field = "fat" ->
           (CASE style = "Title" -> <<"F", "a", "t">> [] style = "lower" -> <<"f", "a", "t">> [] style = "UPPER" -> <<"F", "A", "T">>)
      [] field = "cholesterol" ->
           (CASE style = "Title" -> <<"C", "h", "o", "l", "e", "s", "t", "e", "r", "o", "l">> [] style = "lower" -> <<"c", "h", "o", "l", "e", "s", "t", "e", "r", "o", "l">> [] style = "UPPER" -> <<"C", "H", "O", "L", "E", "S", "T", "E", "R", "O", "L">>)
      [] field = "carbs" ->
           (CASE style = "Title" -> <<"C", "a", "r", "b", "s">> [] style = "lower" -> <<"c", "a", "r", "b", "s">> [] style = "UPPER" -> <<"C", "A", "R", "B", "S">>)
Styles == {"Title", "lower", "UPPER"}

\* The unit the prompt's example writes after each value
PromptUnit(field) ==
    CASE field = "calories" -> <<"k", "c", "a", "l">>
      [] field = "protein" -> <<"g">>
      [] field = "fat" -> <<"g">>
      [] field = "cholesterol" -> <<"m", "g">>
      [] field = "carbs" -> <<"g">>

\* One labelled value with what may surround it:
\* before, label, separator, whitespace, number, unit
LabelledTexts ==
    {pre \o Written(m, style) \o sep \o ws \o num \o unit :
        pre \in {<<>>, <<"x", " ">>},
        m \in Macros,
        style \in Styles,
        sep \in {<<":">>, <<" ", ":">>, <<>>},
        ws \in {<<>>, <<" ">>, <<"\n", " ">>},
        num \in DigitTexts \cup {<<>>, <<"4", ".", "5">>, <<"-", "4">>},
        unit \in {<<>>, <<"g">>, <<"G">>, <<"m", "g">>, <<"k", "c", "a", "l">>, <<" ", "g">>}}

\* The names a response may state for the meal
PlainNames == {<<"A">>, <<"A", " ", "b">>}
ResponseNames ==
    PlainNames \cup {<<>>, <<" ", "A", " ">>, <<"A", "\n", "b">>,
                     <<"F", "a", "t", ":", " ", "9", "g", " ", "d", "i", "p">>}

\* The values a response may state: those of the prompt's example, with one
\* of them replaced
ExampleValues ==
    [calories |-> <<"3", "5", "0">>, protein |-> <<"4", "0">>, fat |-> <<"1", "5">>,
     cholesterol |-> <<"8", "0">>, carbs |-> <<"2", "0">>]
ResponseValues ==
    {ExampleValues} \cup {[ExampleValues EXCEPT ![m] = d] : m \in Macros, d \in DigitTexts}

\* "Meal: <name>, Calories: <c>kcal, Protein: <p>g, ..." without the fields
\* of absent
RECURSIVE FieldsFrom(_, _, _)
FieldsFrom(values, absent, i) ==
    IF i > Len(MacroOrder) THEN <<>>
    ELSE (IF MacroOrder[i] \in absent THEN <<>>
          ELSE <<",", " ">> \o Written(MacroOrder[i], "Title") \o <<":", " ">>
                   \o values[MacroOrder[i]] \o PromptUnit(MacroOrder[i]))
         \o FieldsFrom(values, absent, i + 1)

Response(name, values, absent) ==
    Written("meal", "Title") \o <<":", " ">> \o name \o FieldsFrom(values, absent, 1)

Stated == [name : ResponseNames, values : ResponseValues,
           absent : {{}} \cup {{m} : m \in Macros}]

\* A response cut short by max_tokens
Prefixes(text) == {SubSeq(text, 1, n) : n \in 0..Len(text)}

NotStated == [name |-> <<>>, values |-> ExampleValues, absent |-> Macros]

\* ------------------------------------------------------------ form inputs
\* The texts a user types into the five macro boxes: blank, a valid number, a
\* negative number, a word, nan. One box (calories) varies on its own, the other
\* four are typed alike: a number or a word on Add, blank or a number on Update.
InputTexts == {<<>>, <<"5">>, <<"-", "5">>, <<"x">>, <<"n", "a", "n">>}
Vec(tc, tr) == [m \in Macros |-> IF m = "calories" THEN tc ELSE tr]
AddInputs == {Vec(tc, tr) : tc \in InputTexts, tr \in {<<"5">>, <<"x">>}}
UpdateInputs == {Vec(tc, tr) : tc \in InputTexts, tr \in {<<>>, <<"5">>}}
AddNames == {<<>>, <<"A">>}
UpdateNames == {<<>>, <<"B", " ">>}
BlankTexts == [m \in Macros |-> <<>>]

Msg(kind) == [kind |-> kind, field |-> "-"]

\* Concatenation of f(m) over the macros in form order
RECURSIVE ConcatFrom(_, _)
ConcatFrom(f, i) == IF i > Len(MacroOrder) THEN <<>> ELSE f[MacroOrder[i]] \o ConcatFrom(f, i + 1)
ConcatMacros(f) == ConcatFrom(f, 1)

\* ---------------------------------------------------------------- state
VARIABLES
    app,             \* which script this deployment runs: "callie" or "tracker"
    meals_table,     \* callie.py: the Meals table, record id = position
    session_state,   \* callie.py: meal_name_ai and the five meal_*_ai prefills
    meal_entry_form, \* callie.py: what the Add Meal widgets show after the run
    msgs,            \* st.error/warning/success emitted by the last step
    last,            \* the form submission the last step handled, and the calls it made
    mt_meals,        \* macro_tracker_app.py: the Meals table
    goals_table,     \* macro_tracker_app.py: the Goals table, record id = position
    sessions,        \* macro_tracker_app.py: per browser session, st.session_state and the run in progress
    meals_cache,     \* macro_tracker_app.py: st.cache_data of get_meals_from_airtable, by argument
    goals_cache,     \* macro_tracker_app.py: st.cache_data of get_macro_goals_from_airtable
    runs,            \* macro_tracker_app.py: script runs users have started so far
    shown,           \* macro_tracker_app.py: what the last step put on the dashboard, and for whom
    pn_value,        \* validators: the text handed to parse_number
    pn_result,       \* validators: what the call returned, and by which variant
    response,        \* extraction: the response text, and what it was generated from
    fetched,         \* dashboard: the records the query returns, in two orders, the date, the goals
    report,          \* dashboard: what the last rendering or display_progress call produced
    extraction,      \* extraction: what parse_openai_response returned for it
    callie_cache,    \* callie.py: st.cache_data of get_meals_from_airtable, by argument, for all sessions
    callie_view,     \* callie.py: whether the session's own write is still to be rendered, and the last rendering
    auth             \* macro_tracker_app.py: per browser the tokens in st.session_state and in the cookie; the tokens Google accepts

pn_vars == <<pn_value, pn_result, response, extraction, fetched, report>>
callie_vars == <<meals_table, session_state, meal_entry_form, msgs, last, callie_cache, callie_view>>
tracker_vars == <<runs, mt_meals, goals_table, sessions, meals_cache, goals_cache, shown, auth>>
vars == <<app, meals_table, session_state, meal_entry_form, msgs, last,
          runs, mt_meals, goals_table, sessions, meals_cache, goals_cache, shown, pn_value, pn_result,
          response, extraction, fetched, report, callie_cache, callie_view, auth>>

NotCalled == [fn |-> "none", label |-> "none", out |-> Accepted(0)]
NoResponse == [text |-> <<>>, stated |-> NotStated]
NotParsed == [called |-> FALSE, out |-> Raised]
NothingFetched == [table |-> <<>>, reordered |-> <<>>, selected_date |-> 1,
                   goals |-> [m \in Macros |-> 0]]
NoReport == [op |-> "none"]

\* =========================================================== callie.py
Dates == {1}

BlankSession == [meal_name_ai |-> <<>>, macros |-> BlankTexts]

QuickAddButtons == {"Protein shake", "Common Meal 2", "Common Meal 3"}

QuickAddValues(b) ==
    CASE b = "Protein shake" ->
           [meal_name_ai |-> <<"Protein shake (1 scoop)">>,
            macros |-> [calories |-> <<"1", "2", "0">>, protein |-> <<"2", "4">>,
                        fat |-> <<"1", ".", "5">>, cholesterol |-> <<"5", "5">>,
                        carbs |-> <<"3">>]]
      [] b = "Common Meal 2" -> [meal_name_ai |-> <<"Common Meal 2">>, macros |-> BlankTexts]
      [] b = "Common Meal 3" -> [meal_name_ai |-> <<"Common Meal 3">>, macros |-> BlankTexts]

\* The widgets of st.form("meal_entry_form", clear_on_submit=True) go back to
\* their value= defaults after every submit: the prefills of session_state.
RenderedEntryForm(ss) == [name |-> ss.meal_name_ai, texts |-> ss.macros]

\* The 6-tuple get_macros_from_openai returns; the name is None on failure only
NoName == [isNone |-> TRUE, val |-> <<>>]
SixNone == [name |-> NoName, macros |-> [m \in Macros |-> None]]

LastNone ==
    [op |-> "none", name |-> <<>>, texts |-> BlankTexts, id |-> 0, lookup |-> "-",
     valid |-> TRUE, sent |-> FALSE, failed |-> FALSE, patch |-> {},
     calls |-> 0, requests |-> 0, returned |-> SixNone]

\* A NaN cannot be sent as JSON: a create or update that carries one raises
HasNaN(fields) == \E m \in DOMAIN fields : fields[m] = NaN

\* save_meal_to_airtable: None -> 0, then meals_table.create; an exception is
\* caught, reported with st.error and swallowed.
save_meal_to_airtable(table, meal_date, meal_name, vals, create_ok) ==
    LET fields == [m \in Macros |-> IF vals[m].isNone THEN 0 ELSE vals[m].val]
    IN  IF create_ok
        THEN [table |-> Append(table, [meal |-> meal_name, date |-> meal_date, fields |-> fields]),
              errs |-> <<>>]
        ELSE [table |-> table, errs |-> <<Msg("error_adding_meal")>>]

\* meal_entry_form: the validity verdict of an Add Meal submission
add_meal_valid(meal_name, parsed) ==
    /\ meal_name # <<>>
    /\ \A m \in Macros : ~parsed[m].ret.isNone

add_meal_error_msgs(meal_name, parsed) ==
    (IF meal_name = <<>> THEN <<Msg("meal_name_required")>> ELSE <<>>)
        \o ConcatMacros([m \in Macros |-> parsed[m].errs])

\* get_meals_from_airtable under @st.cache_data(ttl=300): one entry per argument
\* (0: no date given; 1, 2: two dates), in one cache for every session. A frame
\* tells as well whether the query behind it was answered, and whether the
\* cache served it.
CallieSessions == {"c1", "c2"}
CallieCacheKeys == {0, 1, 2}
NotCached == [hit |-> FALSE, df |-> <<>>, answered |-> TRUE]
NotRendered ==
    [by |-> "-", after_write |-> FALSE, selected_date |-> 0, daily |-> NotCached, all |-> NotCached,
     totals |-> [m \in Macros |-> 0]]

\* The cache is left as it is
clear_nothing(cache) == cache

\* get_meals_from_airtable.clear(): every entry goes
get_meals_clear(cache) == [k \in CallieCacheKeys |-> NotCached]

\* a step that renders no dashboard; wrote tells that the session's own write
\* went through, so that its st.rerun() is the next rendering
view_after(view, wrote) ==
    [after_write |-> view.after_write \/ wrote, rendered |-> NotRendered]

CallieInit ==
    /\ meals_table = <<>>
    /\ session_state = BlankSession
    /\ meal_entry_form = RenderedEntryForm(BlankSession)
    /\ msgs = <<>>
    /\ last = LastNone
    /\ callie_cache = [k \in CallieCacheKeys |-> NotCached]
    /\ callie_view = [after_write |-> FALSE, rendered |-> NotRendered]

\* The three "Quick Add Common Meals" buttons
QuickAdd(b) ==
    /\ app = "callie"
    /\ UNCHANGED <<app, tracker_vars, pn_vars>>
    /\ session_state' = QuickAddValues(b)
    /\ meal_entry_form' = RenderedEntryForm(session_state')
    /\ msgs' = <<>>
    /\ last' = [LastNone EXCEPT !.op = "quick_add"]
    /\ UNCHANGED meals_table
    /\ UNCHANGED callie_cache
    /\ callie_view' = view_after(callie_view, FALSE)

\* What the Add Meal handler computes from the submitted boxes
add_meal_verdict(meal_name, parsed) ==
    [vals |-> [m \in Macros |-> parsed[m].ret],
     valid |-> add_meal_valid(meal_name, parsed),
     error_msgs |-> add_meal_error_msgs(meal_name, parsed)]

AddVerdict ==
    [meal_name \in AddNames, texts \in AddInputs |->
        add_meal_verdict(meal_name, [m \in Macros |-> parse_number(texts[m], m)])]

AddMealRun(meal_name, meal_date, texts, create_ok, v) ==
    /\ app = "callie"
    /\ UNCHANGED <<app, tracker_vars, pn_vars>>
    /\ v.valid /\ create_ok => Len(meals_table) < MaxMeals
    /\ v.valid /\ create_ok => ~HasNaN([m \in Macros |-> v.vals[m].val])
    /\ IF v.valid
       THEN /\ meals_table' =
                 save_meal_to_airtable(meals_table, meal_date, meal_name, v.vals, create_ok).table
            /\ session_state' = BlankSession
            /\ callie_cache' = get_meals_clear(callie_cache)
            /\ callie_view' = view_after(callie_view, create_ok)
            /\ msgs' = (IF create_ok THEN <<>> ELSE <<Msg("error_adding_meal")>>)
                           \o <<Msg("meal_added_successfully")>>
       ELSE /\ msgs' = v.error_msgs
            /\ callie_view' = view_after(callie_view, FALSE)
            /\ UNCHANGED <<meals_table, session_state, callie_cache>>
    /\ meal_entry_form' = RenderedEntryForm(session_state')
    /\ last' = [LastNone EXCEPT !.op = "add", !.name = meal_name, !.texts = texts,
                                !.valid = v.valid, !.sent = v.valid,
                                !.failed = v.valid /\ ~create_ok]

\* "Add Meal" pressed in meal_entry_form
AddMeal(meal_name, meal_date, texts, create_ok) ==
    AddMealRun(meal_name, meal_date, texts, create_ok, AddVerdict[meal_name, texts])

\* update_meal_form: the patch built from the non-blank inputs
update_fields_from(name, typed, parsed) ==
    [has_meal |-> name # <<>>,
     meal |-> name,
     fields |-> [m \in {k \in typed : ~parsed[k].ret.isNone} |-> parsed[m].ret],
     errs |-> ConcatMacros([m \in Macros |-> IF m \in typed THEN parsed[m].errs ELSE <<>>])]

update_fields_of(name, texts) ==
    update_fields_from(strip(name),
                       {m \in Macros : strip(texts[m]) # <<>>},
                       [m \in Macros |-> parse_and_log_numeric_update(texts[m], m)])

UpdateFields == [name \in UpdateNames, texts \in UpdateInputs |-> update_fields_of(name, texts)]

PatchKeys(uf) == (IF uf.has_meal THEN {"meal"} ELSE {}) \cup DOMAIN uf.fields

\* meals_table.update(record_id, update_fields): a partial-field patch
airtable_update(table, record_id, uf) ==
    [table EXCEPT ![record_id] =
        [meal |-> IF uf.has_meal THEN uf.meal ELSE @.meal,
         date |-> @.date,
         fields |-> [m \in Macros |-> IF m \in DOMAIN uf.fields
                                      THEN uf.fields[m].val ELSE @.fields[m]]]]

\* meals_table.get(record_id): the record, an HTTPError (404 or another status)
\* or an exception that is no HTTPError (connection error, timeout)
LookupOutcomes(table, id) ==
    IF id \in 1..Len(table) THEN {"found", "http_error", "exception"}
    ELSE {"http_404", "http_error", "exception"}

UpdateBase(id, name, texts, lookup) ==
    [LastNone EXCEPT !.op = "update", !.id = id, !.name = name, !.texts = texts,
                     !.lookup = lookup]

\* "Update Meal" pressed with a blank Meal ID
UpdateMealNoId(name, texts) ==
    /\ app = "callie"
    /\ UNCHANGED <<app, tracker_vars, pn_vars>>
    /\ msgs' = <<Msg("meal_id_required")>>
    /\ last' = UpdateBase(0, name, texts, "-")
    /\ meal_entry_form' = RenderedEntryForm(session_state)
    /\ UNCHANGED <<meals_table, session_state>>
    /\ UNCHANGED callie_cache
    /\ callie_view' = view_after(callie_view, FALSE)

\* "Update Meal" pressed, meals_table.get raises
UpdateMealLookupFails(id, name, texts, lookup) ==
    /\ app = "callie"
    /\ UNCHANGED <<app, tracker_vars, pn_vars>>
    /\ lookup \in LookupOutcomes(meals_table, id) \ {"found"}
    /\ msgs' = <<Msg(CASE lookup = "http_404" -> "no_meal_found"
                       [] lookup = "http_error" -> "error_fetching_meal"
                       [] lookup = "exception" -> "uncaught_exception")>>
    /\ last' = UpdateBase(id, name, texts, lookup)
    /\ meal_entry_form' = RenderedEntryForm(session_state)
    /\ UNCHANGED <<meals_table, session_state>>
    /\ UNCHANGED callie_cache
    /\ callie_view' = view_after(callie_view, FALSE)

UpdateMealRun(id, name, texts, update_ok, uf) ==
    /\ app = "callie"
    /\ UNCHANGED <<app, tracker_vars, pn_vars>>
    /\ id \in 1..Len(meals_table)
    /\ update_ok => ~HasNaN([m \in DOMAIN uf.fields |-> uf.fields[m].val])
    /\ IF \E m \in DOMAIN uf.fields : uf.fields[m].isNone
       THEN /\ update_ok
            /\ msgs' = uf.errs \o <<Msg("correct_invalid_inputs")>>
            /\ last' = [UpdateBase(id, name, texts, "found") EXCEPT !.valid = FALSE]
            /\ callie_view' = view_after(callie_view, FALSE)
            /\ UNCHANGED <<meals_table, callie_cache>>
       ELSE IF PatchKeys(uf) = {}
       THEN /\ update_ok
            /\ msgs' = uf.errs \o <<Msg("no_fields_to_update")>>
            /\ last' = UpdateBase(id, name, texts, "found")
            /\ callie_view' = view_after(callie_view, FALSE)
            /\ UNCHANGED <<meals_table, callie_cache>>
       ELSE /\ meals_table' = IF update_ok THEN airtable_update(meals_table, id, uf)
                              ELSE meals_table
            /\ msgs' = uf.errs \o <<Msg(IF update_ok THEN "meal_updated"
                                        ELSE "error_updating_meal")>>
            /\ last' = [UpdateBase(id, name, texts, "found") EXCEPT
                           !.sent = TRUE, !.failed = ~update_ok, !.patch = PatchKeys(uf)]
            /\ callie_cache' = IF update_ok THEN get_meals_clear(callie_cache) ELSE callie_cache
            /\ callie_view' = view_after(callie_view, update_ok)
    /\ meal_entry_form' = RenderedEntryForm(session_state)
    /\ UNCHANGED session_state

\* "Update Meal" pressed, the record was found
UpdateMeal(id, name, texts, update_ok) ==
    UpdateMealRun(id, name, texts, update_ok, UpdateFields[name, texts])

\* The boxes a path of the handler never reads are left as one representative
\* ---- Consult Callie: ai_meal_entry_form, get_macros_from_openai, openai_api.py
\* openai.OpenAI(api_key=...) is built without max_retries: the client keeps
\* its default, and sends a request again after a connection error, a
\* timeout or a 408, 409, 429 or 5xx answer
max_retries == 2
Answers == {"ok", "transient", "fatal"}
\* What the endpoint answers to the successive requests of one call; what
\* would follow the answer that ends the call is left at "ok"
AnswerSequences ==
    {a \in [1..(max_retries + 1) -> Answers] :
        \A n \in 1..max_retries : a[n] # "transient" => a[n + 1] = "ok"}

\* client.chat.completions.create: the nth request and what follows it
RECURSIVE create_from(_, _)
create_from(answers, n) ==
    IF answers[n] = "ok" THEN [ok |-> TRUE, requests |-> n]
    ELSE IF answers[n] = "transient" /\ n <= max_retries THEN create_from(answers, n + 1)
    ELSE [ok |-> FALSE, requests |-> n]
chat_completions_create(answers) == create_from(answers, 1)

\* The answers of the model that are tried: the prompt's example, a response
\* without cholesterol, a response with no label in it
LlmContents ==
    {GrilledChickenSalad, Response(<<"A">>, ExampleValues, {"cholesterol"}), <<"x", " ">>}

\* extract_macros_from_meal: get_openai_client() raises without an API key;
\* one create(); any exception becomes RuntimeError("OpenAI API error: ...")
extract_from(has_key, created, content) ==
    IF ~has_key THEN [ok |-> FALSE, calls |-> 0, requests |-> 0, content |-> <<>>]
    ELSE IF created.ok
         THEN [ok |-> TRUE, calls |-> 1, requests |-> created.requests, content |-> strip(content)]
    ELSE [ok |-> FALSE, calls |-> 1, requests |-> created.requests, content |-> <<>>]

extract_macros_from_meal(has_key, answers, content) ==
    extract_from(has_key, chat_completions_create(answers), content)

six_of(p) == [name |-> [isNone |-> FALSE, val |-> p.name], macros |-> p.macros]

\* On failure the name comes back as "" and the numbers as None
macros_from_blank_on_failure(e, p) ==
    IF e.ok /\ ~p.raised
    THEN [ok |-> TRUE, calls |-> e.calls, requests |-> e.requests, errs |-> <<>>,
          ret |-> six_of(p)]
    ELSE [ok |-> FALSE, calls |-> e.calls, requests |-> e.requests,
          errs |-> <<Msg("error_communicating_with_openai")>>,
          ret |-> [SixNone EXCEPT !.name = [isNone |-> FALSE, val |-> <<>>]]]

\* get_macros_from_openai, from what extract_macros_from_meal did (e) and what
\* parse_openai_response makes of the content (p): any exception is reported
\* with st.error and six None are returned
macros_from(e, p) ==
    IF e.ok /\ ~p.raised
    THEN [ok |-> TRUE, calls |-> e.calls, requests |-> e.requests, errs |-> <<>>,
          ret |-> six_of(p)]
    ELSE [ok |-> FALSE, calls |-> e.calls, requests |-> e.requests,
          errs |-> <<Msg("error_communicating_with_openai")>>, ret |-> SixNone]

get_macros_from_openai(has_key, answers, content) ==
    macros_from(extract_macros_from_meal(has_key, answers, content),
                parse_openai_response(extract_macros_from_meal(has_key, answers, content).content))

\* str(n) of a non-negative int
DigitChars == <<"0", "1", "2", "3", "4", "5", "6", "7", "8", "9">>
RECURSIVE str_int(_)
str_int(n) ==
    IF n < 10 THEN <<DigitChars[n + 1]>>
    ELSE str_int(n \div 10) \o <<DigitChars[(n % 10) + 1]>>

\* st.session_state['meal_*_ai'] as ai_meal_entry_form sets them; the Add Meal
\* form shows str() of each
prefill_of(ret) ==
    [meal_name_ai |-> ret.name.val,
     macros |-> [m \in Macros |-> IF ret.macros[m].isNone THEN <<>>
                                  ELSE str_int(ret.macros[m].val)]]

\* "Fill me with shame." pressed with a description: r is what
\* get_macros_from_openai did and returned
AiMealEntryRun(r) ==
    /\ app = "callie"
    /\ UNCHANGED <<app, tracker_vars, pn_vars>>
    /\ IF ~r.ret.name.isNone
       THEN /\ session_state' = prefill_of(r.ret)
            /\ msgs' = r.errs \o <<Msg("look_at_your_macros")>>
       ELSE /\ UNCHANGED session_state
            /\ msgs' = r.errs \o <<Msg("error_try_a_different_description")>>
    /\ meal_entry_form' = RenderedEntryForm(session_state')
    /\ last' = [LastNone EXCEPT !.op = "ai_meal", !.calls = r.calls,
                                !.requests = r.requests, !.failed = ~r.ok,
                                !.returned = r.ret]
    /\ UNCHANGED meals_table
    /\ UNCHANGED callie_cache
    /\ callie_view' = view_after(callie_view, FALSE)

MacrosFromOpenai ==
    [has_key \in BOOLEAN, answers \in AnswerSequences, content \in LlmContents |->
        get_macros_from_openai(has_key, answers, content)]

\* The extraction requests that are tried: content matters where a request is
\* answered, the answers where there is an API key
AiRequests ==
    {c \in [has_key : BOOLEAN, answers : AnswerSequences, content : LlmContents] :
        /\ ~c.has_key => c.answers = [n \in 1..(max_retries + 1) |-> "ok"]
        /\ ~(c.has_key /\ chat_completions_create(c.answers).ok) => c.content = GrilledChickenSalad}

AiMealEntry(has_key, answers, content) ==
    AiMealEntryRun(MacrosFromOpenai[has_key, answers, content])

\* "Fill me with shame." pressed with nothing described
AiMealEntryBlank ==
    /\ app = "callie"
    /\ UNCHANGED <<app, tracker_vars, pn_vars>>
    /\ msgs' = <<Msg("enter_a_meal")>>
    /\ meal_entry_form' = RenderedEntryForm(session_state)
    /\ last' = [LastNone EXCEPT !.op = "ai_meal_blank"]
    /\ UNCHANGED <<meals_table, session_state>>
    /\ UNCHANGED callie_cache
    /\ callie_view' = view_after(callie_view, FALSE)

CallieNext ==
    \/ \E c \in AiRequests : AiMealEntry(c.has_key, c.answers, c.content)
    \/ AiMealEntryBlank
    \/ \E b \in QuickAddButtons : QuickAdd(b)
    \/ \E meal_name \in AddNames, texts \in AddInputs :
         IF AddVerdict[meal_name, texts].valid
         THEN \E meal_date \in Dates, ok \in BOOLEAN : AddMeal(meal_name, meal_date, texts, ok)
         ELSE AddMeal(meal_name, 1, texts, TRUE)
    \/ UpdateMealNoId(<<"B">>, Vec(<<"5">>, <<>>))
    \/ \E id \in 1..(MaxMeals + 1), lookup \in {"http_404", "http_error", "exception"} :
         UpdateMealLookupFails(id, <<"B">>, Vec(<<"5">>, <<>>), lookup)
    \/ \E id \in 1..MaxMeals, name \in UpdateNames, texts \in UpdateInputs, ok \in BOOLEAN :
         UpdateMeal(id, name, texts, ok)

\* ================================================ macro_tracker_app.py
\* msgs and last are written by every step of this app as well: the messages
\* the step emitted and the form submission it handled; shown is what a step
\* put on the dashboard.
Users == {"a@x", "b@x"}
SessionIds == {"s1", "s2"}
NoUser == "-"
MaxMtMeals == 2    \* most records the Meals table of macro_tracker_app.py may hold
MaxRuns == 4       \* most script runs the users start (logins and widget interactions)

\* the browsers: the first always signs in as one user, the second as either
UsersOf == [s \in SessionIds |-> IF s = "s1" THEN {"a@x"} ELSE Users]

DefaultGoals == [calories |-> 2000, protein |-> 150, fat |-> 70, cholesterol |-> 300, carbs |-> 250]
\* What a user types into the goal form (st.number_input, min_value=0)
GoalInputs == {[calories |-> 1700, protein |-> 100, fat |-> 55, cholesterol |-> 0, carbs |-> 220]}

MtAddNames == {<<>>, <<"A">>}
MtAddInputs ==
    {Vec(<<"5">>, <<"5">>), Vec(<<>>, <<"5">>), Vec(<<"-", "5">>, <<"x">>),
     Vec(<<"n", "a", "n">>, <<"5">>)}
\* the submissions of the meal form that are tried
MtAddForms ==
    {[name |-> <<"A">>, texts |-> t] : t \in MtAddInputs}
        \cup {[name |-> <<>>, texts |-> Vec(<<"5">>, <<"5">>)]}

\* goals_owner tells whose record the goals shown were read from ("-": the
\* hard-coded defaults); the dict the code passes around does not carry it.
NoShown == [to |-> "-", daily |-> <<>>, all |-> <<>>, goals |-> DefaultGoals, goals_owner |-> "-",
            progress |-> "-"]

\* trigger: what started the script run in progress, a widget or st.rerun()
FreshSession == [user_email |-> NoUser, goals_record_id |-> 0, pc |-> "idle", trigger |-> "rerun"]

\* st.session_state.get("user_email", "demo@example.com")
DemoUser == "demo@example.com"
current_user(sess) == IF sess.user_email = NoUser THEN DemoUser ELSE sess.user_email

CacheKeys == {0} \cup Dates      \* 0: get_meals_from_airtable() without a date
Miss == [hit |-> FALSE, df |-> <<>>]
GoalsMiss == [hit |-> FALSE, goals |-> DefaultGoals, owner |-> "-"]

\* The tokens of the Google login: st.session_state["access_token"] and
\* ["refresh_token"], the two cookies of the browser, and on Google's side the
\* access tokens the user-info endpoint accepts and the refresh tokens the token
\* endpoint honours. at: where the session's last script run ended; logged_out:
\* Logout was pressed and no authorization has succeeded since.
NoToken == [user |-> NoUser, id |-> 0]
NoCookie == [access_token |-> NoToken, refresh_token |-> NoToken]
FreshBrowser ==
    [access_token |-> NoToken, refresh_token |-> NoToken, cookie |-> NoCookie,
     at |-> "-", logged_out |-> FALSE]
NoAuth ==
    [browser |-> [s \in SessionIds |-> FreshBrowser], accepted |-> {}, honoured |-> {}, issued |-> 0]

TrackerInit ==
    /\ auth = NoAuth
    /\ runs = 0
    /\ mt_meals = <<>>
    /\ goals_table = <<>>
    /\ sessions = [s \in SessionIds |-> FreshSession]
    /\ meals_cache = [k \in CacheKeys |-> Miss]
    /\ goals_cache = GoalsMiss
    /\ shown = NoShown

\* sort=['-date']: descending by date, records of one date keep their order
insert_at(sorted, r, k) == SubSeq(sorted, 1, k) \o <<r>> \o SubSeq(sorted, k + 1, Len(sorted))
insert_by_date(sorted, r) ==
    insert_at(sorted, r, Cardinality({i \in 1..Len(sorted) : sorted[i].date >= r.date}))
RECURSIVE sort_date_desc(_)
sort_date_desc(recs) ==
    IF recs = <<>> THEN <<>>
    ELSE insert_by_date(sort_date_desc(SubSeq(recs, 1, Len(recs) - 1)), recs[Len(recs)])

RECURSIVE filter_meals(_, _, _)
filter_meals(recs, user_email, key) ==
    IF recs = <<>> THEN <<>>
    ELSE (IF recs[1].user_email = user_email /\ (key = 0 \/ recs[1].date = key)
          THEN <<recs[1]>> ELSE <<>>) \o filter_meals(Tail(recs), user_email, key)

\* meals_table.all(formula=..., sort=['-date']) of get_meals_from_airtable
mt_query_meals(table, user_email, key) == sort_date_desc(filter_meals(table, user_email, key))

\* get_meals_from_airtable under @st.cache_data: one entry per argument,
\* shared by every session; the body runs on a miss only
mt_get_meals(sess, key) ==
    IF meals_cache[key].hit THEN meals_cache[key].df
    ELSE mt_query_meals(mt_meals, current_user(sess), key)

meals_cache_store(cache, key, df) ==
    IF cache[key].hit THEN cache ELSE [cache EXCEPT ![key] = [hit |-> TRUE, df |-> df]]

\* goals_table.all(formula="{user_email} = '...'", max_records=1)
GoalIdsOf(user_email) == {i \in 1..Len(goals_table) : goals_table[i].user_email = user_email}
FirstGoalId(user_email) ==
    IF GoalIdsOf(user_email) = {} THEN 0
    ELSE CHOOSE i \in GoalIdsOf(user_email) : \A j \in GoalIdsOf(user_email) : i <= j

\* the body of get_macro_goals_from_airtable, given the id found (0: none)
goals_fetched(rid) ==
    IF rid = 0 THEN [hit |-> TRUE, goals |-> DefaultGoals, owner |-> "-"]
    ELSE [hit |-> TRUE, goals |-> goals_table[rid].goals, owner |-> goals_table[rid].user_email]

\* get_macro_goals_from_airtable under @st.cache_data: one entry for all sessions
mt_goals_cache_after(sess) ==
    IF goals_cache.hit THEN goals_cache ELSE goals_fetched(FirstGoalId(current_user(sess)))

\* st.session_state['goals_record_id'] is written by the body, on a miss only
mt_goals_record_id_after(sess) ==
    IF goals_cache.hit \/ FirstGoalId(current_user(sess)) = 0 THEN sess.goals_record_id
    ELSE FirstGoalId(current_user(sess))

\* ------------------------------ dashboard: totals and progress (both scripts)
\* Amounts are in units of 1/Scale, as the stored values are.
\* fields.get('<macro>', 0) when a DataFrame row is built from a record
value_or_zero(fields, m) == IF m \in DOMAIN fields THEN fields[m] ELSE 0

meal_row(record) ==
    [date |-> record.date, fields |-> [m \in Macros |-> value_or_zero(record.fields, m)]]

RECURSIVE on_date(_, _)
on_date(recs, selected_date) ==
    IF recs = <<>> THEN <<>>
    ELSE (IF recs[1].date = selected_date THEN <<recs[1]>> ELSE <<>>)
         \o on_date(Tail(recs), selected_date)

\* callie.py get_meals_from_airtable(selected_date), on a cache miss:
\* meals_table.all(formula="IS_SAME({date}, ...)", sort=['-date']) row by row
get_meals_for_date(table, selected_date) ==
    [i \in 1..Len(sort_date_desc(on_date(table, selected_date))) |->
        meal_row(sort_date_desc(on_date(table, selected_date))[i])]

\* The first row only
first_row_only(df, m) == IF df = <<>> THEN 0 ELSE df[1].fields[m]

\* The last row only: each row overwrites the total
last_row_only(df, m) == IF df = <<>> THEN 0 ELSE df[Len(df)].fields[m]

\* daily_meals_df.get('<column>', pd.Series(dtype=float)).sum()
RECURSIVE column_sum(_, _)
column_sum(df, m) == IF df = <<>> THEN 0 ELSE df[1].fields[m] + column_sum(Tail(df), m)

\* total_calories_today .. total_carbs_today
dashboard_totals(df) == [m \in Macros |-> column_sum(df, m)]

\* Rounding of a quotient q with remainder r (of den) to the nearest, ties to even
round_half_even(q, r, den) ==
    IF 2 * r < den THEN q
    ELSE IF 2 * r > den THEN q + 1
    ELSE IF q % 2 = 0 THEN q ELSE q + 1

\* f"{x:.0f}" of x = num / den
round_div(num, den) == round_half_even(num \div den, num % den, den)

\* num / den carried to further decimal places, one at a time
RECURSIVE expand(_, _, _)
expand(qr, den, places) ==
    IF places = 0 THEN qr
    ELSE expand([q |-> qr.q * 10 + (qr.r * 10) \div den, r |-> (qr.r * 10) % den],
                den, places - 1)
rounded(qr, den) == round_half_even(qr.q, qr.r, den)

\* f"{(current / goal) * 100:.1f}", in tenths of a percent
percent_tenths(current, goal) ==
    rounded(expand([q |-> current \div goal, r |-> current % goal], goal, 3), goal)

GoalNotSet == [kind |-> "goal_not_set", tenths |-> 0]
Percentage(t) == [kind |-> "percent", tenths |-> t]
Lesser(a, b) == IF a < b THEN a ELSE b

\* The percentage is cut at 100
display_progress_capped(current, goal) ==
    IF goal > 0
    THEN [current |-> round_div(current, Scale), goal |-> round_div(goal, Scale),
          delta |-> Percentage(Lesser(percent_tenths(current, goal), 1000)),
          bar |-> [num |-> Lesser(current, goal), den |-> goal],
          raised |-> current < 0]
    ELSE [current |-> round_div(current, Scale), goal |-> round_div(goal, Scale),
          delta |-> GoalNotSet, bar |-> [num |-> 0, den |-> 1], raised |-> FALSE]

\* display_progress: st.metric(value="<current>/<goal>", delta=...) and then
\* st.progress(min(percentage / 100, 1.0)), which raises below 0.0
display_progress(current, goal) ==
    IF goal > 0
    THEN [current |-> round_div(current, Scale), goal |-> round_div(goal, Scale),
          delta |-> Percentage(percent_tenths(current, goal)),
          bar |-> [num |-> Lesser(current, goal), den |-> goal],
          raised |-> current < 0]
    ELSE [current |-> round_div(current, Scale), goal |-> round_div(goal, Scale),
          delta |-> GoalNotSet, bar |-> [num |-> 0, den |-> 1], raised |-> FALSE]

\* plot_gauge: "value / goal * 100 if goal else 0" divides for a non-zero goal
\* only; the figure it returns is always truthy
plot_gauge(value, goal) == [value |-> value, axis |-> goal, divides |-> goal # 0]

\* The loop over macro_summaries: the gauge, then "+<n> <unit> over" in red
\* or "<n> <unit> left" in green
macro_summary(intake, goal) ==
    [gauge |-> plot_gauge(intake, goal),
     remaining |-> goal - intake,
     exceeded |-> intake > goal,
     text |-> IF intake > goal
              THEN [kind |-> "over", amount |-> round_div(intake - goal, Scale)]
              ELSE [kind |-> "left", amount |-> round_div(goal - intake, Scale)]]

\* What the Daily Macro Dashboard shows for the rows fetched and the goals
\* (goals as the scripts hold them, in whole units)
dashboard_report(df, goals) ==
    [totals |-> dashboard_totals(df),
     summary |-> [m \in Macros |-> macro_summary(dashboard_totals(df)[m], goals[m] * Scale)]]

\* callie.py goals_for_display
CallieGoals == [calories |-> 1700, protein |-> 100, fat |-> 55, cholesterol |-> 300, carbs |-> 220]

\* ------------------------------------------- callie.py: the cached reads
\* get_meals_from_airtable(selected_date=None), the body: meals_table.all(
\* formula, sort=['-date']) row by row; an exception is reported with st.error
\* and the empty frame is returned
get_meals_from_airtable(table, key, answered) ==
    IF answered THEN sort_date_desc(IF key = 0 THEN table ELSE on_date(table, key)) ELSE <<>>

\* The call through @st.cache_data: the entry when there is one, else the body,
\* whose return value is stored, whatever it is
cached_get_meals(cache, table, key, answered) ==
    IF cache[key].hit
    THEN [cache |-> cache, frame |-> cache[key]]
    ELSE [cache |-> [cache EXCEPT ![key] =
                        [hit |-> TRUE, df |-> get_meals_from_airtable(table, key, answered),
                         answered |-> answered]],
          frame |-> [hit |-> FALSE, df |-> get_meals_from_airtable(table, key, answered),
                     answered |-> answered]]

\* st.error of the body; st.cache_data replays it when it serves the entry
fetch_errors(frame) == IF frame.answered THEN <<>> ELSE <<Msg("error_fetching_meals")>>

\* The script from "Daily Macro Dashboard" to "All Logged Meals" in a run of
\* session s: daily_meals_df = get_meals_from_airtable(selected_date_dashboard),
\* the five totals, all_meals_df = get_meals_from_airtable(). The rendering
\* of the session that writes is kept for inspection.
CallieRenderRun(s, selected_date, daily, all) ==
    /\ app = "callie"
    /\ UNCHANGED <<app, tracker_vars, pn_vars>>
    /\ callie_cache' = all.cache
    /\ callie_view' =
          IF s = "c1"
          THEN [after_write |-> FALSE,
                rendered |-> [by |-> s, after_write |-> callie_view.after_write,
                              selected_date |-> selected_date,
                              daily |-> daily.frame, all |-> all.frame,
                              totals |-> dashboard_totals(daily.frame.df)]]
          ELSE view_after(callie_view, FALSE)
    /\ msgs' = fetch_errors(daily.frame) \o fetch_errors(all.frame)
    /\ last' = [LastNone EXCEPT !.op = "render"]
    /\ UNCHANGED <<meals_table, session_state, meal_entry_form>>

CallieRenderDaily(s, selected_date, answered_all, daily) ==
    CallieRenderRun(s, selected_date, daily,
                    cached_get_meals(daily.cache, meals_table, 0, answered_all))

CallieRender(s, selected_date, answered_daily, answered_all) ==
    CallieRenderDaily(s, selected_date, answered_all,
                      cached_get_meals(callie_cache, meals_table, selected_date, answered_daily))

\* ttl=300: an entry expires
CallieCacheExpire(k) ==
    /\ app = "callie"
    /\ UNCHANGED <<app, tracker_vars, pn_vars>>
    /\ callie_cache[k].hit
    /\ callie_cache' = [callie_cache EXCEPT ![k] = NotCached]
    /\ callie_view' = view_after(callie_view, FALSE)
    /\ msgs' = <<>>
    /\ last' = LastNone
    /\ UNCHANGED <<meals_table, session_state, meal_entry_form>>

\* Two sessions of callie.py on one server: the one that fills in the forms, and
\* another that only looks at the dashboard
CachedDates == CallieCacheKeys \ {0}
CacheNext ==
    \/ \E d \in CachedDates, ok \in BOOLEAN : AddMeal(<<"A">>, d, Vec(<<"5">>, <<"5">>), ok)
    \/ \E id \in 1..MaxMeals, name \in UpdateNames, ok \in BOOLEAN :
         UpdateMeal(id, name, Vec(<<>>, <<>>), ok)
    \/ \E s \in CallieSessions, d \in CachedDates, answered_daily \in BOOLEAN,
          answered_all \in BOOLEAN : CallieRender(s, d, answered_daily, answered_all)
    \/ \E k \in CallieCacheKeys : CallieCacheExpire(k)

\* what a step of this app leaves alone outside its own tables
mt_frame ==
    UNCHANGED <<app, meals_table, session_state, meal_entry_form, pn_vars, callie_cache, callie_view, auth>>
mt_silent == msgs' = <<>> /\ last' = LastNone /\ shown' = NoShown

\* ---- login / logout (lines 89-125)
Login(s, u) ==
    /\ app = "tracker"
    /\ runs < MaxRuns
    /\ runs' = runs + 1
    /\ sessions[s].pc = "idle"
    /\ sessions[s].user_email = NoUser
    /\ sessions' = [sessions EXCEPT ![s] = [@ EXCEPT !.user_email = u, !.pc = "init"]]
    /\ UNCHANGED <<mt_meals, goals_table, meals_cache, goals_cache>>
    /\ mt_silent
    /\ mt_frame

Logout(s) ==
    /\ app = "tracker"
    /\ sessions[s].pc = "idle"
    /\ sessions[s].user_email # NoUser
    /\ sessions' = [sessions EXCEPT ![s] = FreshSession]
    /\ UNCHANGED <<mt_meals, goals_table, meals_cache, goals_cache>>
    /\ mt_silent
    /\ UNCHANGED runs
    /\ mt_frame

\* ---- a widget interaction starts a script run of a logged-in session
StartRun(s) ==
    /\ app = "tracker"
    /\ runs < MaxRuns
    /\ runs' = runs + 1
    /\ sessions[s].pc = "idle"
    /\ sessions[s].user_email # NoUser
    /\ sessions' = [sessions EXCEPT ![s] = [@ EXCEPT !.pc = "init", !.trigger = "widget"]]
    /\ UNCHANGED <<mt_meals, goals_table, meals_cache, goals_cache>>
    /\ mt_silent
    /\ mt_frame

\* ---- initialise_airtable_goals: goals_table.all(...), then create if none
initialise_always_creates(user_email) == "create"

initialise_next_pc(user_email) == IF GoalIdsOf(user_email) = {} THEN "create" ELSE "goals"

InitGoalsCheck(s) ==
    /\ app = "tracker"
    /\ sessions[s].pc = "init"
    /\ sessions' = [sessions EXCEPT ![s].pc = initialise_next_pc(current_user(sessions[s]))]
    /\ UNCHANGED <<mt_meals, goals_table, meals_cache, goals_cache>>
    /\ mt_silent
    /\ UNCHANGED runs
    /\ mt_frame

InitGoalsCreate(s) ==
    /\ app = "tracker"
    /\ sessions[s].pc = "create"
    /\ goals_table' = Append(goals_table, [user_email |-> current_user(sessions[s]),
                                           goals |-> DefaultGoals])
    /\ goals_cache' = GoalsMiss
    /\ sessions' = [sessions EXCEPT ![s].pc = "goals"]
    /\ UNCHANGED <<mt_meals, meals_cache>>
    /\ mt_silent
    /\ UNCHANGED runs
    /\ mt_frame

\* ---- current_macro_goals = get_macro_goals_from_airtable(); the forms are
\* acted on in a run a widget started
GetGoals(s) ==
    /\ app = "tracker"
    /\ sessions[s].pc = "goals"
    /\ goals_cache' = mt_goals_cache_after(sessions[s])
    /\ sessions' = [sessions EXCEPT ![s] =
          [@ EXCEPT !.goals_record_id = mt_goals_record_id_after(sessions[s]),
                    !.pc = IF sessions[s].trigger = "widget" THEN "form" ELSE "dash"]]
    /\ UNCHANGED <<mt_meals, goals_table, meals_cache>>
    /\ mt_silent
    /\ UNCHANGED runs
    /\ mt_frame

\* st.rerun(): the script starts over
rerun(sess) == [sess EXCEPT !.pc = "init", !.trigger = "rerun"]

\* ---- "Update Goals": update_macro_goals_in_airtable, clear, st.rerun
update_macro_goals_in_airtable(table, record_id, new_goals) ==
    IF record_id = 0 THEN table ELSE [table EXCEPT ![record_id].goals = new_goals]

SubmitGoals(s, new_goals) ==
    /\ app = "tracker"
    /\ sessions[s].pc = "form"
    /\ goals_table' = update_macro_goals_in_airtable(goals_table, sessions[s].goals_record_id,
                                                     new_goals)
    /\ msgs' = <<Msg(IF sessions[s].goals_record_id = 0 THEN "no_goals_record_id"
                     ELSE "goals_updated")>>
    /\ last' = [LastNone EXCEPT !.op = "mt_update_goals", !.id = sessions[s].goals_record_id,
                                !.sent = sessions[s].goals_record_id # 0]
    /\ goals_cache' = GoalsMiss
    /\ sessions' = [sessions EXCEPT ![s] = rerun(sessions[s])]
    /\ shown' = NoShown
    /\ UNCHANGED <<mt_meals, meals_cache>>
    /\ UNCHANGED runs
    /\ mt_frame

\* ---- "Add Meal" of macro_tracker_app.py
mt_add_meal_valid(meal_name, parsed) ==
    /\ meal_name # <<>>
    /\ \A m \in Macros : ~(parsed[m].ret.isNone \/ below_zero(parsed[m].ret.val))

mt_add_meal_verdict(meal_name, parsed) ==
    [vals |-> [m \in Macros |-> parsed[m].ret.val],
     valid |-> mt_add_meal_valid(meal_name, parsed),
     error_msgs |-> add_meal_error_msgs(meal_name, parsed)]

MtAddVerdict ==
    [meal_name \in MtAddNames, texts \in MtAddInputs |->
        mt_add_meal_verdict(meal_name, [m \in Macros |-> mt_parse_number(texts[m], m)])]

\* save_meal_to_airtable of macro_tracker_app.py
mt_save_meal_to_airtable(table, user_email, meal_date, meal_name, vals, create_ok) ==
    IF create_ok
    THEN Append(table, [user_email |-> user_email, date |-> meal_date, meal |-> meal_name,
                        fields |-> vals])
    ELSE table

SubmitMealRun(s, form, meal_date, create_ok, v) ==
    /\ app = "tracker"
    /\ sessions[s].pc = "form"
    /\ v.valid /\ create_ok => Len(mt_meals) < MaxMtMeals
    /\ v.valid /\ create_ok => ~HasNaN(v.vals)
    /\ IF v.valid
       THEN /\ mt_meals' = mt_save_meal_to_airtable(mt_meals, current_user(sessions[s]), meal_date,
                                                    form.name, v.vals, create_ok)
            /\ meals_cache' = [k \in CacheKeys |-> Miss]
            /\ msgs' = IF create_ok THEN <<>> ELSE <<Msg("error_adding_meal")>>
            /\ sessions' = [sessions EXCEPT ![s] = rerun(sessions[s])]
       ELSE /\ msgs' = v.error_msgs
            /\ sessions' = [sessions EXCEPT ![s].pc = "dash"]
            /\ UNCHANGED <<mt_meals, meals_cache>>
    /\ last' = [LastNone EXCEPT !.op = "mt_add", !.name = form.name, !.texts = form.texts,
                                !.valid = v.valid, !.sent = v.valid,
                                !.failed = v.valid /\ ~create_ok]
    /\ shown' = NoShown
    /\ UNCHANGED <<goals_table, goals_cache>>
    /\ UNCHANGED runs
    /\ mt_frame

SubmitMeal(s, form, meal_date, create_ok) ==
    SubmitMealRun(s, form, meal_date, create_ok, MtAddVerdict[form.name, form.texts])

\* ---- "Refresh Dashboard": clear both caches, st.rerun
Refresh(s) ==
    /\ app = "tracker"
    /\ sessions[s].pc = "form"
    /\ meals_cache' = [k \in CacheKeys |-> Miss]
    /\ goals_cache' = GoalsMiss
    /\ sessions' = [sessions EXCEPT ![s] = rerun(sessions[s])]
    /\ UNCHANGED <<mt_meals, goals_table>>
    /\ mt_silent
    /\ UNCHANGED runs
    /\ mt_frame

\* ---- the widget that started the run was none of the three buttons
NoSubmit(s) ==
    /\ app = "tracker"
    /\ sessions[s].pc = "form"
    /\ sessions' = [sessions EXCEPT ![s].pc = "dash"]
    /\ UNCHANGED <<mt_meals, goals_table, meals_cache, goals_cache>>
    /\ mt_silent
    /\ UNCHANGED runs
    /\ mt_frame

\* ---- the rest of the script: daily_meals_df = get_meals_from_airtable(selected_date),
\* goals_for_display = get_macro_goals_from_airtable(), all_meals_df =
\* get_meals_from_airtable(); the run ends
Render(s, selected_date) ==
    /\ app = "tracker"
    /\ sessions[s].pc = "dash"
    /\ meals_cache' =
          meals_cache_store(
              meals_cache_store(meals_cache, selected_date,
                                mt_query_meals(mt_meals, current_user(sessions[s]), selected_date)),
              0, mt_query_meals(mt_meals, current_user(sessions[s]), 0))
    /\ goals_cache' = mt_goals_cache_after(sessions[s])
    /\ sessions' = [sessions EXCEPT ![s] =
          [@ EXCEPT !.goals_record_id = mt_goals_record_id_after(sessions[s]),
                    !.pc = "idle", !.trigger = "rerun"]]
    /\ shown' = [to |-> s,
                 daily |-> mt_get_meals(sessions[s], selected_date),
                 all |-> mt_get_meals(sessions[s], 0),
                 goals |-> mt_goals_cache_after(sessions[s]).goals,
                 goals_owner |-> mt_goals_cache_after(sessions[s]).owner,
                 progress |-> dashboard_report(mt_get_meals(sessions[s], selected_date),
                                               mt_goals_cache_after(sessions[s]).goals)]
    /\ msgs' = <<>>
    /\ last' = LastNone
    /\ UNCHANGED <<mt_meals, goals_table>>
    /\ UNCHANGED runs
    /\ mt_frame

\* ---- ttl=300: an entry of either cache expires
MealsCacheExpire(k) ==
    /\ app = "tracker"
    /\ meals_cache[k].hit
    /\ meals_cache' = [meals_cache EXCEPT ![k] = Miss]
    /\ UNCHANGED <<mt_meals, goals_table, sessions, goals_cache>>
    /\ mt_silent
    /\ UNCHANGED runs
    /\ mt_frame

GoalsCacheExpire ==
    /\ app = "tracker"
    /\ goals_cache.hit
    /\ goals_cache' = GoalsMiss
    /\ UNCHANGED <<mt_meals, goals_table, sessions, meals_cache>>
    /\ mt_silent
    /\ UNCHANGED runs
    /\ mt_frame

TrackerNext ==
    \/ \E s \in SessionIds : \E u \in UsersOf[s] : Login(s, u)
    \/ \E s \in SessionIds : Logout(s)
    \/ \E s \in SessionIds : StartRun(s)
    \/ \E s \in SessionIds : InitGoalsCheck(s)
    \/ \E s \in SessionIds : InitGoalsCreate(s)
    \/ \E s \in SessionIds : GetGoals(s)
    \/ \E s \in SessionIds, g \in GoalInputs : SubmitGoals(s, g)
    \/ \E s \in SessionIds, f \in MtAddForms, d \in Dates, ok \in BOOLEAN : SubmitMeal(s, f, d, ok)
    \/ \E s \in SessionIds : Refresh(s)
    \/ \E s \in SessionIds : NoSubmit(s)
    \/ \E s \in SessionIds, d \in Dates : Render(s, d)
    \/ \E k \in CacheKeys : MealsCacheExpire(k)
    \/ GoalsCacheExpire

\* ------------------- macro_tracker_app.py lines 47-125: the login with Google
\* What lines 47-125 read and write for one session: the keys of
\* st.session_state, the cookies of the browser, and Google's side
world(s) ==
    [user_email |-> sessions[s].user_email,
     goals_record_id |-> sessions[s].goals_record_id,
     access_token |-> auth.browser[s].access_token,
     refresh_token |-> auth.browser[s].refresh_token,
     cookie |-> auth.browser[s].cookie,
     accepted |-> auth.accepted, honoured |-> auth.honoured, issued |-> auth.issued]

\* "Try to restore tokens from cookie": each token that st.session_state lacks
\* and the cookie holds
restore_tokens(w) ==
    [w EXCEPT !.access_token = IF @ = NoToken THEN w.cookie.access_token ELSE @,
              !.refresh_token = IF @ = NoToken THEN w.cookie.refresh_token ELSE @]

\* refresh_access_token: a new access token when the token endpoint answers
\* 200, else None
refresh_access_token(w) ==
    IF w.refresh_token.id \in w.honoured
    THEN [user |-> w.refresh_token.user, id |-> w.issued + 1]
    ELSE NoToken

\* "If we have a refresh_token but no access_token, try to refresh"
refresh_if_no_access_token(w) ==
    IF w.refresh_token # NoToken /\ w.access_token = NoToken /\ refresh_access_token(w) # NoToken
    THEN [w EXCEPT !.access_token = refresh_access_token(w),
                   !.cookie.access_token = refresh_access_token(w),
                   !.accepted = @ \cup {w.issued + 1},
                   !.issued = @ + 1]
    ELSE w

\* "Try to fetch user info if not already present": the e-mail when the
\* user-info endpoint answers 200
fetch_user_info(w) ==
    IF w.access_token # NoToken /\ w.user_email = NoUser /\ w.access_token.id \in w.accepted
    THEN [w EXCEPT !.user_email = w.access_token.user]
    ELSE w

\* lines 47-87
before_login_button(w) == fetch_user_info(refresh_if_no_access_token(restore_tokens(w)))

\* What a run is started with: a page load or st.rerun(), a widget of the
\* app, the Logout button, or the result of oauth2.authorize_button (a token
\* for a user, with a refresh token or without)
AuthInputs ==
    [kind : {"load", "widget", "logout"}, user : {NoUser}, refresh : {FALSE}]
        \cup [kind : {"authorized"}, user : Users, refresh : BOOLEAN]

\* lines 96-112: the result of authorize_button is taken into st.session_state
\* and into the cookies
logged_in(w, result) ==
    [w EXCEPT !.user_email = result.user,
              !.access_token = [user |-> result.user, id |-> w.issued + 1],
              !.refresh_token = IF result.refresh THEN [user |-> result.user, id |-> w.issued + 1]
                                ELSE @,
              !.cookie = [access_token |-> [user |-> result.user, id |-> w.issued + 1],
                          refresh_token |-> IF result.refresh
                                            THEN [user |-> result.user, id |-> w.issued + 1]
                                            ELSE @.refresh_token],
              !.accepted = @ \cup {w.issued + 1},
              !.honoured = IF result.refresh THEN @ \cup {w.issued + 1} ELSE @,
              !.issued = @ + 1]

\* Logout that leaves the cookies alone
logged_out_of_session_only(w) ==
    [w EXCEPT !.user_email = NoUser, !.goals_record_id = 0,
              !.access_token = NoToken, !.refresh_token = NoToken]

\* lines 117-124: every key of st.session_state and both cookies are deleted
logged_out(w) ==
    [w EXCEPT !.user_email = NoUser, !.goals_record_id = 0,
              !.access_token = NoToken, !.refresh_token = NoToken, !.cookie = NoCookie]

\* The script goes on whether or not somebody is logged in
never_stops(user_email, kind) ==
    IF (user_email = NoUser /\ kind = "authorized") \/ (user_email # NoUser /\ kind = "logout")
    THEN "top" ELSE "init"

\* lines 89-125, where the run goes: st.rerun() after a login or a logout
\* ("top"), st.stop() at the login button ("idle"), else on to line 127 ("init")
after_login_button(user_email, kind) ==
    IF user_email = NoUser
    THEN (IF kind = "authorized" THEN "top" ELSE "idle")
    ELSE (IF kind = "logout" THEN "top" ELSE "init")

\* lines 89-125, what they write
login_or_logout(w, input) ==
    IF w.user_email = NoUser
    THEN (IF input.kind = "authorized" THEN logged_in(w, input) ELSE w)
    ELSE (IF input.kind = "logout" THEN logged_out(w) ELSE w)

\* One script run of session s from line 47 to line 125; w is the state line
\* 89 finds
AuthRunFrom(s, input, w) ==
    /\ sessions' = [sessions EXCEPT ![s] =
          [user_email |-> login_or_logout(w, input).user_email,
           goals_record_id |-> login_or_logout(w, input).goals_record_id,
           pc |-> after_login_button(w.user_email, input.kind),
           trigger |-> IF input.kind = "widget" THEN "widget" ELSE "rerun"]]
    /\ auth' =
          [browser |-> [auth.browser EXCEPT ![s] =
              [access_token |-> login_or_logout(w, input).access_token,
               refresh_token |-> login_or_logout(w, input).refresh_token,
               cookie |-> login_or_logout(w, input).cookie,
               at |-> CASE after_login_button(w.user_email, input.kind) = "idle" -> "login_button"
                        [] after_login_button(w.user_email, input.kind) = "top" -> "rerun"
                        [] OTHER -> "app",
               logged_out |->
                   IF w.user_email # NoUser /\ input.kind = "logout" THEN TRUE
                   ELSE IF w.user_email = NoUser /\ input.kind = "authorized" THEN FALSE
                   ELSE @.logged_out]],
           accepted |-> login_or_logout(w, input).accepted,
           honoured |-> login_or_logout(w, input).honoured,
           issued |-> login_or_logout(w, input).issued]
    /\ msgs' = IF after_login_button(w.user_email, input.kind) = "idle" THEN <<>>
               ELSE <<Msg("logged_in_as")>>
    /\ last' = [LastNone EXCEPT !.op = "auth"]
    /\ shown' = NoShown
    /\ UNCHANGED <<mt_meals, goals_table, meals_cache, goals_cache>>
    /\ UNCHANGED <<app, meals_table, session_state, meal_entry_form, pn_vars, callie_cache,
                   callie_view>>

\* The run starts: by the user, or by the st.rerun() of the run before. The
\* login button answers only where it was shown, Logout and the widgets of
\* the app only where somebody is logged in.
AuthRun(s, input) ==
    /\ app = "tracker"
    /\ sessions[s].pc \in {"idle", "top"}
    /\ IF sessions[s].pc = "top"
       THEN input.kind = "load" /\ UNCHANGED runs
       ELSE runs < MaxRuns /\ runs' = runs + 1
    /\ input.kind = "authorized" => auth.browser[s].at = "login_button"
    /\ input.kind \in {"logout", "widget"} => sessions[s].user_email # NoUser
    /\ AuthRunFrom(s, input, before_login_button(world(s)))

auth_frame ==
    /\ UNCHANGED <<runs, mt_meals, goals_table, meals_cache, goals_cache>>
    /\ mt_silent
    /\ UNCHANGED <<app, meals_table, session_state, meal_entry_form, pn_vars, callie_cache,
                   callie_view>>

\* The page is opened anew: a new session with an empty st.session_state, in
\* the same browser with its cookies
NewSession(s) ==
    /\ app = "tracker"
    /\ sessions[s].pc = "idle"
    /\ auth.browser[s].at # "-"
    /\ sessions' = [sessions EXCEPT ![s] = FreshSession]
    /\ auth' = [auth EXCEPT !.browser[s] =
                   [@ EXCEPT !.access_token = NoToken, !.refresh_token = NoToken, !.at = "-"]]
    /\ auth_frame

\* An access token runs out: the user-info endpoint answers 401 from now on
AccessTokenExpires(id) ==
    /\ app = "tracker"
    /\ id \in auth.accepted
    /\ auth' = [auth EXCEPT !.accepted = @ \ {id}]
    /\ UNCHANGED sessions
    /\ auth_frame

\* A refresh token is revoked: the token endpoint no longer answers 200
RefreshTokenRevoked(id) ==
    /\ app = "tracker"
    /\ id \in auth.honoured
    /\ auth' = [auth EXCEPT !.honoured = @ \ {id}]
    /\ UNCHANGED sessions
    /\ auth_frame

\* The browser drops the access-token cookie and keeps the other
AccessCookieLost(s) ==
    /\ app = "tracker"
    /\ auth.browser[s].cookie.access_token # NoToken
    /\ auth' = [auth EXCEPT !.browser[s].cookie.access_token = NoToken]
    /\ UNCHANGED sessions
    /\ auth_frame

\* One browser, used by either user; behind the login the script as above
AuthSessions == {"s2"}
AuthNext ==
    \/ \E s \in AuthSessions, input \in AuthInputs : AuthRun(s, input)
    \/ \E s \in AuthSessions : NewSession(s)
    \/ \E id \in 1..MaxRuns : AccessTokenExpires(id)
    \/ \E id \in 1..MaxRuns : RefreshTokenRevoked(id)
    \/ \E s \in AuthSessions : AccessCookieLost(s)
    \/ \E s \in AuthSessions : InitGoalsCheck(s)
    \/ \E s \in AuthSessions : InitGoalsCreate(s)
    \/ \E s \in AuthSessions : GetGoals(s)
    \/ \E s \in AuthSessions : NoSubmit(s)
    \/ \E s \in AuthSessions, d \in Dates, ok \in BOOLEAN :
         SubmitMeal(s, [name |-> <<"A">>, texts |-> Vec(<<"5">>, <<"5">>)], d, ok)
    \/ \E s \in AuthSessions, d \in Dates : Render(s, d)

\* ------------------------------------------------ validator specification
ParseInit ==
    /\ app = "validators"
    /\ CallieInit
    /\ TrackerInit
    /\ pn_value \in TextsUpTo(MaxLen)
    /\ pn_result = NotCalled
    /\ response = NoResponse
    /\ extraction = NotParsed
    /\ fetched = NothingFetched
    /\ report = NoReport

CallParseNumber ==
    /\ pn_result.fn = "none"
    /\ \E label \in Macros :
         pn_result' = [fn |-> "callie", label |-> label, out |-> parse_number(pn_value, label)]
    /\ UNCHANGED <<app, callie_vars, tracker_vars, pn_value, response, extraction, fetched, report>>

CallMtParseNumber ==
    /\ pn_result.fn = "none"
    /\ \E label \in Macros :
         pn_result' = [fn |-> "tracker", label |-> label, out |-> mt_parse_number(pn_value, label)]
    /\ UNCHANGED <<app, callie_vars, tracker_vars, pn_value, response, extraction, fetched, report>>

ParseNext == CallParseNumber \/ CallMtParseNumber

SpecParse == ParseInit /\ [][ParseNext]_vars

\* ----------------------------------------------- extraction specification
\* parse_openai_response applied to one response text: a labelled value in
\* every layout, a response in the prompt's form (whole, or with one field
\* absent), or such a response cut short
ExtractInit ==
    /\ app = "extraction"
    /\ CallieInit
    /\ TrackerInit
    /\ pn_value = <<>>
    /\ pn_result = NotCalled
    /\ \/ \E t \in LabelledTexts : response = [text |-> t, stated |-> NotStated]
       \/ \E st \in Stated :
             response = [text |-> Response(st.name, st.values, st.absent), stated |-> st]
       \/ \E t \in Prefixes(GrilledChickenSalad) : response = [text |-> t, stated |-> NotStated]
    /\ extraction = NotParsed
    /\ fetched = NothingFetched
    /\ report = NoReport

CallParseOpenaiResponse ==
    /\ ~extraction.called
    /\ extraction' = [called |-> TRUE, out |-> parse_openai_response(response.text)]
    /\ UNCHANGED <<app, callie_vars, tracker_vars, pn_value, pn_result, response, fetched, report>>

ExtractNext == CallParseOpenaiResponse

SpecExtract == ExtractInit /\ [][ExtractNext]_vars

\* ------------------------------------------------ dashboard specification
\* The dashboard code applied to what a query may return: up to MaxFetched
\* records of two dates, some of them without a value for some macro, in the
\* order the service gave them and in another order
MaxFetched == 3
FetchDates == {1, 2}
Tenth == Scale \div 10
RawRecords ==
    {[date |-> 1, fields |-> [calories |-> 1800 * Scale, protein |-> 40 * Scale,
                              fat |-> 155 * Tenth, cholesterol |-> 80 * Scale,
                              carbs |-> 20 * Scale]],
     [date |-> 1, fields |-> [calories |-> 350 * Scale, protein |-> 5 * Scale,
                              fat |-> 5 * Tenth, carbs |-> 20 * Scale]],
     [date |-> 1, fields |-> [calories |-> (0 - 5) * Scale]],
     [date |-> 2, fields |-> [calories |-> 100 * Scale, protein |-> 10 * Scale,
                              fat |-> 1 * Scale, cholesterol |-> 0, carbs |-> 30 * Scale]]}
RECURSIVE TablesUpTo(_)
TablesUpTo(n) ==
    IF n = 0 THEN {<<>>}
    ELSE TablesUpTo(n - 1)
         \cup {Append(t, r) : t \in {u \in TablesUpTo(n - 1) : Len(u) = n - 1}, r \in RawRecords}
Reorderings(t) == {[i \in 1..Len(t) |-> t[p[i]]] : p \in Permutations(1..Len(t))}
GoalProfiles == {CallieGoals, DefaultGoals} \cup GoalInputs

DashboardInit ==
    /\ app = "dashboard"
    /\ CallieInit
    /\ TrackerInit
    /\ pn_value = <<>>
    /\ pn_result = NotCalled
    /\ response = NoResponse
    /\ extraction = NotParsed
    /\ \E t \in TablesUpTo(MaxFetched) : \E r \in Reorderings(t) :
       \E d \in FetchDates : \E g \in GoalProfiles :
          fetched = [table |-> t, reordered |-> r, selected_date |-> d, goals |-> g]
    /\ report = NoReport

dashboard_frame ==
    UNCHANGED <<app, callie_vars, tracker_vars, pn_value, pn_result, response, extraction, fetched>>

\* One run of the dashboard section over the records in the order given
RenderDashboard(order) ==
    /\ report' = [op |-> "render", order |-> order,
                  out |-> dashboard_report(
                            get_meals_for_date(IF order = "fetched" THEN fetched.table
                                               ELSE fetched.reordered,
                                               fetched.selected_date),
                            fetched.goals)]
    /\ dashboard_frame

\* display_progress(label, current, goal, unit) for one macro of the day
CallDisplayProgress(m) ==
    /\ report' = [op |-> "display_progress", macro |-> m,
                  out |-> display_progress(
                            dashboard_totals(get_meals_for_date(fetched.table,
                                                                fetched.selected_date))[m],
                            fetched.goals[m] * Scale)]
    /\ dashboard_frame

DashboardNext ==
    \/ \E order \in {"fetched", "reordered"} : RenderDashboard(order)
    \/ \E m \in Macros : CallDisplayProgress(m)

SpecDashboard == DashboardInit /\ [][DashboardNext]_vars

\* ------------------------------------------------------ app specification
Init ==
    /\ app \in {"callie", "tracker"}
    /\ CallieInit
    /\ TrackerInit
    /\ pn_value = <<>>
    /\ pn_result = NotCalled
    /\ response = NoResponse
    /\ extraction = NotParsed
    /\ fetched = NothingFetched
    /\ report = NoReport

Next == CallieNext \/ TrackerNext

Spec == Init /\ [][Next]_vars

\* ------------------------------------------- callie.py on its own deployment
CallieOnlyInit == Init /\ app = "callie"

SpecCallie == CallieOnlyInit /\ [][CallieNext]_vars

\* --------------------------------- callie.py with its dashboard, two sessions
SpecCache == CallieOnlyInit /\ [][CacheNext]_vars

\* ------------------------------- macro_tracker_app.py on its own deployment
TrackerOnlyInit == Init /\ app = "tracker"

SpecTracker == TrackerOnlyInit /\ [][TrackerNext]_vars

\* ------------------- macro_tracker_app.py with the login of lines 47-125
SpecAuth == TrackerOnlyInit /\ [][AuthNext]_vars

\* ================================================================ claims
Range(seq) == {seq[i] : i \in 1..Len(seq)}
IsBlank(text) == strip(text) = <<>>
\* A box whose text is no number, or a number below zero
NotANumber(text) == ~float(text).ok \/ float(text).val = NaN
BelowZero(text) == float(text).ok /\ below_zero(float(text).val)

\* C1 (as claimed): after any sequence of Add Meal and Update Meal submissions
\* every macro field of every record of the Meals table of callie.py is >= 0.
C1_StoredMacrosNonNegative ==
    \A i \in 1..Len(meals_table) : \A m \in Macros : meals_table[i].fields[m] >= 0

\* C2 (as claimed): an Update Meal submission with a macro box that holds
\* something other than a number sends no update to the Meals table.
C2_InvalidUpdateSendsNothing ==
    (/\ last.op = "update"
     /\ \E m \in Macros : ~IsBlank(last.texts[m]) /\ NotANumber(last.texts[m]))
        => ~last.sent

\* C3 (as claimed): every meal record listed or summed for a logged-in user,
\* and the goal profile shown to them, is owned by that user's email.
C3_ShownDataIsTheUsersOwn ==
    shown.to # "-" =>
        /\ \A i \in 1..Len(shown.daily) :
              shown.daily[i].user_email = sessions[shown.to].user_email
        /\ \A i \in 1..Len(shown.all) :
              shown.all[i].user_email = sessions[shown.to].user_email
        /\ shown.goals_owner \in {sessions[shown.to].user_email, "-"}

\* C4 (as claimed): the Goals table never holds two records with the same
\* user_email.
C4_OneGoalRecordPerUser ==
    \A i, j \in 1..Len(goals_table) :
        goals_table[i].user_email = goals_table[j].user_email => i = j

\* C5 (as claimed): when the create call of Add Meal fails, the run reports an
\* error, reports no success and leaves the prefilled meal values in place.
C5_FailedCreateAborts ==
    [][(last'.op = "add" /\ last'.failed) =>
          /\ Msg("error_adding_meal") \in Range(msgs')
          /\ Msg("meal_added_successfully") \notin Range(msgs')
          /\ session_state' = session_state]_vars

\* C6 (as claimed): parse_number of either app returns the value of a text
\* that denotes a number not below zero, and rejects (None and one message) a
\* text that denotes a number below zero or no number. A blank text is left
\* aside here.
C6_ParseNumberAcceptsTheNonNegativeOnly ==
    (pn_result.fn # "none" /\ ~IsBlank(pn_value)) =>
        IF NotANumber(pn_value) \/ BelowZero(pn_value)
        THEN pn_result.out = Rejected(pn_result.label)
        ELSE pn_result.out = Accepted(float(pn_value).val)

\* C7 (as claimed): an Add Meal submission, in either app, with a missing name
\* or with a macro box that holds a negative number or no number creates no
\* record and reports one error message for each offending field. A blank box
\* is left aside here.
Offending(texts) ==
    {m \in Macros : ~IsBlank(texts[m]) /\ (NotANumber(texts[m]) \/ BelowZero(texts[m]))}
Count(seq, x) == Cardinality({i \in 1..Len(seq) : seq[i] = x})

C7_InvalidAddRejected ==
    [][(/\ last'.op \in {"add", "mt_add"}
        /\ (last'.name = <<>> \/ Offending(last'.texts) # {})) =>
          /\ meals_table' = meals_table
          /\ mt_meals' = mt_meals
          /\ last'.name = <<>> => Count(msgs', Msg("meal_name_required")) = 1
          /\ \A m \in Offending(last'.texts) : Count(msgs', MustBeNonNegative(m)) = 1]_vars

\* C8 (as claimed): after an Add Meal submission that fails validation the
\* form shows the values the user entered.
C8_EnteredValuesRetained ==
    (last.op = "add" /\ ~last.valid) =>
        meal_entry_form = [name |-> last.name, texts |-> last.texts]

\* C9 (as claimed): an Update Meal whose lookup ends in not-found reports
\* 'No meal found'; any other failure of the lookup reports the generic
\* error; in both cases no update is sent and no record changes.
C9_LookupFailureReported ==
    [][(last'.op = "update" /\ last'.lookup \in {"http_404", "http_error", "exception"}) =>
          /\ msgs' = <<Msg(IF last'.lookup = "http_404" THEN "no_meal_found"
                           ELSE "error_fetching_meal")>>
          /\ ~last'.sent
          /\ meals_table' = meals_table]_vars

\* C10 (as claimed): a successful Update Meal sets, on the record named, exactly
\* the fields whose box was not blank; blank boxes and other records keep
\* their values.
C10_UpdateChangesExactlyTheSupplied ==
    [][(last'.op = "update" /\ last'.sent /\ ~last'.failed) =>
          /\ Len(meals_table') = Len(meals_table)
          /\ \A j \in 1..Len(meals_table) : j # last'.id => meals_table'[j] = meals_table[j]
          /\ meals_table'[last'.id].date = meals_table[last'.id].date
          /\ meals_table'[last'.id].meal =
                IF IsBlank(last'.name) THEN meals_table[last'.id].meal ELSE strip(last'.name)
          /\ \A m \in Macros :
                IF IsBlank(last'.texts[m])
                THEN meals_table'[last'.id].fields[m] = meals_table[last'.id].fields[m]
                ELSE /\ float(last'.texts[m]).ok
                     /\ meals_table'[last'.id].fields[m] = float(last'.texts[m]).val]_vars

Occurs(word, text) == \E i \in 1..Len(text) : literal_at(text, i, word)
IsTuple(out) ==
    /\ ~out.raised
    /\ \A m \in Macros : out.macros[m] = None \/ (~out.macros[m].isNone /\ out.macros[m].val \in Nat)
ValuesOf(texts) == [m \in Macros |-> Some(DigitsVal(texts[m]))]

\* C12: parse_openai_response raises for no response text, whole, partial or
\* malformed: it returns the 6-tuple, in which a number whose label the text
\* does not hold is None and the name is "" when the text holds no "Meal:".
C12_ParseNeverRaises ==
    extraction.called =>
        /\ IsTuple(extraction.out)
        /\ \A m \in Macros :
             ~Occurs(LabelOf(m), response.text) => extraction.out.macros[m] = None
        /\ ~Occurs(LabelOf("meal"), response.text) => extraction.out.name = <<>>

\* A response cut short after the protein: the later numbers are None
C12_Witness ==
    /\ extraction.called
    /\ response.text \in Prefixes(GrilledChickenSalad)
    /\ response.text # GrilledChickenSalad
    /\ ~extraction.out.raised
    /\ ~extraction.out.macros["protein"].isNone
    /\ extraction.out.macros["carbs"] = None

\* The digits that follow "<label>:" and whitespace at position i of text
DigitsFrom(text, j) == SubSeq(text, j, after_digits(text, j) - 1)
ValueAfter(text, i, m) == DigitsFrom(text, after_spaces(text, i + Len(LabelOf(m))))
\* text holds at i the label of m, a colon, optional whitespace and a number
LabelledAt(text, i, m) == literal_at(text, i, LabelOf(m)) /\ ValueAfter(text, i, m) # <<>>

\* C13: whenever the text holds the label of a numeric field (in any letter
\* case), a colon, optional whitespace and a number, parse_openai_response
\* returns that number for the field, whether a unit follows it or not.
C13_UnitOptional ==
    extraction.called =>
        \A m \in Macros : \A i \in 1..Len(response.text) :
            (/\ LabelledAt(response.text, i, m)
             /\ \A h \in 1..(i - 1) : ~LabelledAt(response.text, h, m))
                => extraction.out.macros[m] = Some(DigitsVal(ValueAfter(response.text, i, m)))

\* C14: the fields are extracted independently. For a response in the
\* prompt's form, with a plain meal name, from which one numeric field is
\* absent, that field is None, and the name and the other four numbers are the
\* ones the response states.
C14_FieldsIndependent ==
    (/\ extraction.called
     /\ Cardinality(response.stated.absent) = 1
     /\ response.stated.name \in PlainNames) =>
        /\ ~extraction.out.raised
        /\ extraction.out.name = response.stated.name
        /\ \A m \in Macros :
             extraction.out.macros[m] =
                 IF m \in response.stated.absent THEN None
                 ELSE ValuesOf(response.stated.values)[m]

\* The response without its cholesterol, parsed
C14_Witness ==
    /\ extraction.called
    /\ response.stated.absent = {"cholesterol"}
    /\ response.stated.name = <<"A", " ", "b">>
    /\ response.stated.values = ExampleValues
    /\ extraction.out.macros["cholesterol"] = None
    /\ extraction.out.macros["carbs"] = Some(20)

ExactlyAsStated ==
    /\ ~extraction.out.raised
    /\ extraction.out.name = response.stated.name
    /\ extraction.out.macros = ValuesOf(response.stated.values)

GrilledChickenSaladParsed ==
    [raised |-> FALSE,
     name |-> SubSeq(GrilledChickenSalad, 7, 27),
     macros |-> [calories |-> Some(350), protein |-> Some(40), fat |-> Some(15),
                 cholesterol |-> Some(80), carbs |-> Some(20)]]

\* C15 as stated: for "Meal: <name>, Calories: <c>kcal, Protein: <p>g,
\* Fat: <f>g, Cholesterol: <h>mg, Carbs: <b>g" with any comma-free name,
\* parse_openai_response returns exactly (<name>, c, p, f, h, b).
C15_AnyCommaFreeName ==
    (/\ extraction.called
     /\ response.stated.absent = {}
     /\ \A i \in 1..Len(response.stated.name) : response.stated.name[i] # ",") =>
        ExactlyAsStated

\* The name comes back as written: no whitespace around it, no newline in it,
\* and no "<label>:" of a numeric field in it
NameComesBack(name) ==
    /\ strip(name) = name
    /\ \A i \in 1..Len(name) : name[i] \notin {",", "\n"}
    /\ \A m \in Macros : ~Occurs(LabelOf(m), name)

\* C15: for "Meal: <name>, Calories: <c>kcal, Protein: <p>g, Fat: <f>g,
\* Cholesterol: <h>mg, Carbs: <b>g" with a name that has no comma, no newline,
\* no whitespace around it and no label of a numeric field in it, and values
\* written as digits, parse_openai_response returns exactly (<name>, c, p, f,
\* h, b); the Grilled Chicken Salad example yields
\* ("Grilled Chicken Salad", 350, 40, 15, 80, 20).
C15_PromptFormParsedExactly ==
    /\ (/\ extraction.called
        /\ response.stated.absent = {}
        /\ NameComesBack(response.stated.name)) => ExactlyAsStated
    /\ (extraction.called /\ response.text = GrilledChickenSalad) =>
            extraction.out = GrilledChickenSaladParsed

\* The example of the prompt, parsed
C15_Witness ==
    /\ extraction.called
    /\ response.text = GrilledChickenSalad
    /\ extraction.out = GrilledChickenSaladParsed

\* --------------------------------------------------- totals and progress
\* The sum of f over the finite set S
RECURSIVE SumOver(_, _)
SumOver(S, f) ==
    IF S = {} THEN 0
    ELSE f[CHOOSE i \in S : TRUE] + SumOver(S \ {CHOOSE i \in S : TRUE}, f)
\* The records a rendering read, in the order it read them
ReadBy(r) == IF r.order = "fetched" THEN fetched.table ELSE fetched.reordered
OfTheDay(recs) == {i \in 1..Len(recs) : recs[i].date = fetched.selected_date}
\* The sum of macro m over the records of the selected date, a missing value as 0
DaySum(recs, m) ==
    SumOver(OfTheDay(recs),
            [i \in 1..Len(recs) |-> IF m \in DOMAIN recs[i].fields THEN recs[i].fields[m] ELSE 0])

\* C16: for every macro the dashboard total of the selected date is the sum of
\* that macro over the fetched records of that date, a value a record lacks
\* counting as zero; with no record of that date every total is zero.
C16_TotalsAreSums ==
    report.op = "render" =>
        /\ \A m \in Macros : report.out.totals[m] = DaySum(ReadBy(report), m)
        /\ OfTheDay(ReadBy(report)) = {} => \A m \in Macros : report.out.totals[m] = 0

\* Two records of the day, one without cholesterol, and a record of another day
C16_Witness ==
    /\ report.op = "render"
    /\ Cardinality(OfTheDay(ReadBy(report))) = 2
    /\ Len(ReadBy(report)) = 3
    /\ \E i \in OfTheDay(ReadBy(report)) : "cholesterol" \notin DOMAIN ReadBy(report)[i].fields
    /\ report.out.totals["calories"] = 2150 * Scale
    /\ report.out.totals["cholesterol"] = 80 * Scale

DayTenths(m) == DaySum(fetched.table, m) \div Tenth
GoalTenths(m) == fetched.goals[m] * 10
\* t tenths of a percent is total / goal x 100 to the nearest tenth
IsPercentage(t, m) ==
    /\ (2 * t - 1) * GoalTenths(m) <= 2000 * DayTenths(m)
    /\ 2000 * DayTenths(m) <= (2 * t + 1) * GoalTenths(m)
Abs(x) == IF x < 0 THEN 0 - x ELSE x

C19_GoalNotSetShown ==
    shown.to # "-" =>
        \A m \in Macros :
            shown.goals[m] = 0 =>
                /\ ~shown.progress.summary[m].gauge.divides
                /\ shown.progress.summary[m].text.kind = "goal_not_set"

\* ------------------------------------------------------- Consult Callie
\* What an extraction request that failed leaves behind
FailureHandled ==
    /\ Msg("error_communicating_with_openai") \in Range(msgs')
    /\ last'.returned = SixNone
    /\ session_state' = session_state

Listed(key) == SelectSeq(meals_table, LAMBDA r : key = 0 \/ r.date = key)
\* The frame holds exactly these records, each as often, in whatever order
SameRecords(df, recs) ==
    /\ Len(df) = Len(recs)
    /\ \A i \in 1..Len(recs) : Count(df, recs[i]) = Count(recs, recs[i])
ListedSum(key, m) ==
    SumOver(1..Len(Listed(key)), [i \in 1..Len(Listed(key)) |-> Listed(key)[i].fields[m]])

C22_UpdateGoalsReachesOwnRecord ==
    [][last'.op = "mt_update_goals" =>
          \A s \in SessionIds :
             (sessions'[s] # sessions[s] /\ GoalIdsOf(sessions[s].user_email) # {}) =>
                /\ last'.sent
                /\ last'.id \in GoalIdsOf(sessions[s].user_email)
                /\ Len(goals_table') = Len(goals_table)
                /\ goals_table'[last'.id].goals \in GoalInputs
                /\ \A i \in 1..Len(goals_table) :
                      i # last'.id => goals_table'[i] = goals_table[i]]_vars

\* ------------------------------------------------------- login and logout
\* Where a script run is past line 126, where the tables are read and written
BehindLogin == {"init", "create", "goals", "form", "dash"}
Owners ==
    {goals_table[i].user_email : i \in 1..Len(goals_table)}
        \cup {mt_meals[i].user_email : i \in 1..Len(mt_meals)}
HoldsValidRefreshToken(cookie) ==
    cookie.refresh_token # NoToken /\ cookie.refresh_token.id \in auth.honoured

\* C23: a script run is at the part that reads and writes the Meals and Goals
\* tables only while st.session_state holds a user_email; a run that has ended
\* without one has stopped at the login button; and every record of the two
\* tables is owned by an e-mail a login gave, none by "demo@example.com".
C23_NoTableAccessWithoutLogin ==
    /\ \A s \in SessionIds :
          /\ sessions[s].pc \in BehindLogin => sessions[s].user_email # NoUser
          /\ (sessions[s].pc = "idle" /\ sessions[s].user_email = NoUser
                  /\ auth.browser[s].at # "-")
                => auth.browser[s].at = "login_button"
    /\ Owners \subseteq Users
    /\ DemoUser \notin Owners

\* A run that stopped at the login button although the browser had been used
\* before: the tables hold a goal record and a meal, both of the user who was
\* logged in then
C23_Witness ==
    \E s \in SessionIds :
       /\ auth.browser[s].at = "login_button"
       /\ sessions[s].user_email = NoUser
       /\ goals_table # <<>>
       /\ mt_meals # <<>>

\* C24: from the press of Logout until an authorization succeeds, the
\* session's st.session_state holds no user_email, access_token or
\* refresh_token, the browser's cookies hold neither token, no run of the
\* session gets past the login button, and a run that has ended has stopped
\* there.
C24_LogoutStaysOut ==
    \A s \in SessionIds :
       auth.browser[s].logged_out =>
          /\ sessions[s].user_email = NoUser
          /\ auth.browser[s].access_token = NoToken
          /\ auth.browser[s].refresh_token = NoToken
          /\ auth.browser[s].cookie = NoCookie
          /\ sessions[s].pc \notin BehindLogin
          /\ (sessions[s].pc = "idle" /\ auth.browser[s].at # "-")
                => auth.browser[s].at = "login_button"

\* The run after a Logout has stopped at the login button, while Google still
\* accepts the access token and honours the refresh token the session had
C24_Witness ==
    \E s \in SessionIds :
       /\ auth.browser[s].logged_out
       /\ auth.browser[s].at = "login_button"
       /\ auth.accepted # {}
       /\ auth.honoured # {}
       /\ goals_table # <<>>

\* C25 (as claimed): a run of a session whose browser holds a cookie with a
\* valid refresh token does not end at the login button: the session becomes
\* logged in without the button, whether or not the access token of the cookie
\* is still accepted.
C25_RefreshTokenLogsIn ==
    \A s \in SessionIds :
       (sessions[s].pc = "idle" /\ HoldsValidRefreshToken(auth.browser[s].cookie))
          => auth.browser[s].at # "login_button"

====
